---- MODULE Spec2Model ----
(***************************************************************************)
(* Model of the two converters of SegaGenesisBMP2HEX:                      *)
(*   GenesisBMP2HEX.py  image -> 16-colour palette + 8x8 tiles -> assembly *)
(*   GenesisHEX2BMP.py  assembly -> palette + tile bytes -> 4-bit BMP file *)
(* Texts are sequences of one-character strings, files are sequences of    *)
(* bytes, Python lists are sequences (1-based here, 0-based in the code).  *)
(***************************************************************************)
EXTENDS Integers, Sequences, FiniteSets, TLC

VARIABLES
    codec,            \* colour codec on its own: [pc, color, rgb, genesis_color]
    nib,              \* tile codec on its own: [pc, tile, hex, bytes, unpacked]
    fpc,              \* GenesisBMP2HEX.py: position of the script
    image,            \* the quantized 'P' image: [size, px, palette]
    genesis_palette,  \* result of create_genesis_palette
    tiles,            \* result of image_to_tiles: [tiles, tiles_x, tiles_y]
    tile_hex_data,    \* result of tiles_to_genesis_hex
    asm,              \* the assembly file: its text, and the literals its author
                      \* put in the data lines of each section
    rpc,              \* GenesisHEX2BMP.py: position of the script
    palette,          \* GenesisHEX2BMP module global `palette`
    tile_data,        \* GenesisHEX2BMP module global `tile_data`
    call,             \* arguments of the last create_bmp call
    bmp,              \* the BMP file written: [headers, color_table, pixel_data]
    err               \* exception raised by the last step, "none" otherwise

vars == <<codec, nib, fpc, image, genesis_palette, tiles, tile_hex_data, asm,
          rpc, palette, tile_data, call, bmp, err>>

forwardVars == <<fpc, image, genesis_palette, tiles, tile_hex_data>>
reverseVars == <<rpc, palette, tile_data, call, bmp>>

\* A module-level name before and after its assignment
Undefined == [defined |-> FALSE, value |-> <<>>]
Defined(v) == [defined |-> TRUE, value |-> v]

\* A result: the value returned, or the exception raised
Returned(v) == [raised |-> "none", value |-> v]
Raised(e) == [raised |-> e, value |-> <<>>]

NoAsm == [exists |-> FALSE, text |-> <<>>, palette_words |-> <<>>, tile_bytes |-> <<>>]
NoBmp == [written |-> FALSE, headers |-> <<>>, color_table |-> <<>>, pixel_data |-> <<>>]
NoCall == [made |-> FALSE, palette |-> <<>>, tiles |-> <<>>, width_tiles |-> 0, height_tiles |-> 0]

(***************************************************************************)
(* Bounds of the model.                                                    *)
(***************************************************************************)
MaxWidth == 10
MaxHeight == 10
MaxTilesAcross == 2
MaxTilesDown == 2
MaxPaletteLines == 3
MaxTileLines == 8
MaxNotedLines == 2

(***************************************************************************)
(* Python integer operators.                                               *)
(***************************************************************************)
RECURSIVE Pow2(_)
Pow2(n) == IF n = 0 THEN 1 ELSE 2 * Pow2(n - 1)

Shl(a, n) == a * Pow2(n)
Shr(a, n) == a \div Pow2(n)

RECURSIVE BitAnd(_, _)
BitAnd(a, b) ==
    IF a = 0 \/ b = 0 THEN 0
    ELSE (IF a % 2 = 1 /\ b % 2 = 1 THEN 1 ELSE 0) + 2 * BitAnd(a \div 2, b \div 2)

RECURSIVE BitOr(_, _)
BitOr(a, b) ==
    IF a = 0 THEN b
    ELSE IF b = 0 THEN a
    ELSE (IF a % 2 = 1 \/ b % 2 = 1 THEN 1 ELSE 0) + 2 * BitOr(a \div 2, b \div 2)

Min(a, b) == IF a < b THEN a ELSE b

\* round(num / den) for num >= 0, den > 0: nearest integer, ties to the even one.
\* The float 7*c/255 of the code is never within 1/510 of a tie for c in 0..255,
\* so the exact quotient rounds as the float does.
PyRound(num, den) ==
    LET q == num \div den
        r == num % den
    IN  IF 2 * r < den THEN q
        ELSE IF 2 * r > den THEN q + 1
        ELSE IF q % 2 = 0 THEN q ELSE q + 1

\* s[a:b] of a Python list, 0 <= a <= b (out-of-range indices are clamped).
Slice(s, a, b) ==
    LET hi == Min(b, Len(s))
    IN  IF a >= hi THEN <<>> ELSE SubSeq(s, a + 1, hi)

\* The concatenation of ss[a], .., ss[b] (split in halves, to keep the
\* evaluation shallow)
RECURSIVE FlattenRange(_, _, _)
FlattenRange(ss, a, b) ==
    IF a > b THEN <<>>
    ELSE IF a = b THEN ss[a]
    ELSE LET m == (a + b) \div 2
         IN  FlattenRange(ss, a, m) \o FlattenRange(ss, m + 1, b)

Flatten(ss) == FlattenRange(ss, 1, Len(ss))

(***************************************************************************)
(* Hexadecimal and decimal text.                                           *)
(***************************************************************************)
UpperHex == <<"0", "1", "2", "3", "4", "5", "6", "7",
              "8", "9", "A", "B", "C", "D", "E", "F">>
LowerHex == <<"0", "1", "2", "3", "4", "5", "6", "7",
              "8", "9", "a", "b", "c", "d", "e", "f">>

\* [0-9A-Fa-f]
IsHexDigit(c) == \E i \in 1..16 : UpperHex[i] = c \/ LowerHex[i] = c

HexDigitValue(c) == (CHOOSE i \in 1..16 : UpperHex[i] = c \/ LowerHex[i] = c) - 1

\* int(match, 16)
RECURSIVE HexToInt(_)
HexToInt(cs) ==
    IF cs = <<>> THEN 0
    ELSE 16 * HexToInt(SubSeq(cs, 1, Len(cs) - 1)) + HexDigitValue(cs[Len(cs)])

RECURSIVE HexDigits(_)
HexDigits(n) ==
    IF n < 16 THEN <<UpperHex[n + 1]>>
    ELSE HexDigits(n \div 16) \o <<UpperHex[(n % 16) + 1]>>

RECURSIVE ZeroPad(_, _)
ZeroPad(cs, width) == IF Len(cs) >= width THEN cs ELSE ZeroPad(<<"0">> \o cs, width)

\* f"{n:02X}" and f"{n:04X}"
FormatHex(n, width) == ZeroPad(HexDigits(n), width)

\* f"{n}"
RECURSIVE FormatDec(_)
FormatDec(n) ==
    IF n < 10 THEN <<UpperHex[n + 1]>>
    ELSE FormatDec(n \div 10) \o <<UpperHex[(n % 10) + 1]>>

(***************************************************************************)
(* Colour codec.                                                           *)
(***************************************************************************)
\* GenesisBMP2HEX.rgb_to_genesis_color
rgb_to_genesis_color(r, g, b) ==
    LET genesis_r == PyRound(r * 7, 255)
        genesis_g == PyRound(g * 7, 255)
        genesis_b == PyRound(b * 7, 255)
    IN  BitOr(BitOr(Shl(genesis_b, 6), Shl(genesis_g, 3)), genesis_r)

\* GenesisHEX2BMP.genesis_to_rgb
genesis_to_rgb(color) ==
    LET r == Shl(BitAnd(color, 7), 5)
        g == Shl(BitAnd(color, 56), 2)
        b == Shr(BitAnd(color, 448), 1)
    IN  <<r, g, b>>

(***************************************************************************)
(* GenesisBMP2HEX.py                                                       *)
(***************************************************************************)
NumColors == 16
TileSize == 8

\* image.quantize(colors=16, ...).getpalette(): Pillow keeps one RGB triple per
\* colour of the quantized palette (n of them, 1 <= n <= 16); releases before
\* 9.1 return the palette zero-filled to 256 entries instead.
GetPalette(colors, padded) ==
    Flatten(colors) \o
    (IF padded THEN [k \in 1..(3 * (256 - Len(colors))) |-> 0] ELSE <<>>)

\* create_genesis_palette, from the palette list of the quantized image on.
\* palette_colors[i + 2] raises IndexError when the list is shorter than i + 3.
create_genesis_palette(img) ==
    LET palette_colors == Slice(img.palette, 0, 3 * NumColors)
        steps == {i \in 0..(3 * NumColors - 1) : i % 3 = 0}
        converted == [k \in 1..NumColors |->
                         rgb_to_genesis_color(palette_colors[3 * k - 2],
                                              palette_colors[3 * k - 1],
                                              palette_colors[3 * k])]
        padded == converted \o [k \in 1..(NumColors - Len(converted)) |-> 0]
    IN  IF \E i \in steps : i + 2 >= Len(palette_colors)
        THEN Raised("IndexError")
        ELSE Returned(padded)

\* Image.new('P', (new_width, new_height), 0) followed by paste(image, (0, 0))
PasteOnBlank(img, new_width, new_height) ==
    [y \in 0..(new_height - 1) |->
        [x \in 0..(new_width - 1) |->
            IF x < img.size[1] /\ y < img.size[2] THEN img.px[y][x] ELSE 0]]

\* Mutant of PaddedSize: rounds down instead of up
PaddedSizeFloor(n) == (n \div TileSize) * TileSize

\* ((n + 7) // 8) * 8: the next multiple of 8
PaddedSize(n) == ((n + 7) \div TileSize) * TileSize

\* image_to_tiles
image_to_tiles(img) ==
    LET width == img.size[1]
        height == img.size[2]
        new_width == PaddedSize(width)
        new_height == PaddedSize(height)
        img_array == IF new_width # width \/ new_height # height
                     THEN PasteOnBlank(img, new_width, new_height)
                     ELSE img.px
        tx == new_width \div TileSize
        ty == new_height \div TileSize
        Tile(tile_y, tile_x) ==
            [i \in 1..(TileSize * TileSize) |->
                LET y == (i - 1) \div TileSize
                    x == (i - 1) % TileSize
                    pixel_x == tile_x * TileSize + x
                    pixel_y == tile_y * TileSize + y
                IN  BitAnd(img_array[pixel_y][pixel_x], 15)]
    IN  [tiles |-> [k \in 1..(tx * ty) |-> Tile((k - 1) \div tx, (k - 1) % tx)],
         tiles_x |-> tx,
         tiles_y |-> ty]

\* Mutant of PackTile: the earlier pixel goes to the low nibble
PackTileLowFirst(tile) ==
    [j \in 1..(Len(tile) \div 2) |-> BitOr(Shl(tile[2 * j], 4), tile[2 * j - 1])]

\* The 32 byte values of one tile: (tile[i] << 4) | tile[i + 1] for i = 0, 2, .., 62
PackTile(tile) ==
    [j \in 1..(Len(tile) \div 2) |-> BitOr(Shl(tile[2 * j - 1], 4), tile[2 * j])]

\* tiles_to_genesis_hex: every byte as a two-digit upper-case hex string
tiles_to_genesis_hex(ts) ==
    Flatten([k \in 1..Len(ts) |->
                LET bytes == PackTile(ts[k])
                IN  [j \in 1..Len(bytes) |-> FormatHex(bytes[j], 2)]])

\* sep.join(parts)
Join(parts, sep) ==
    Flatten([k \in 1..Len(parts) |-> IF k = 1 THEN parts[k] ELSE sep \o parts[k]])

PaletteComment == <<";", " ", "G", "e", "n", "e", "s", "i", "s", " ", "P", "a", "l", "e", "t", "t", "e", " ", "D", "a", "t", "a", " ", "(", "1", "6", " ", "c", "o", "l", "o", "r", "s", ")">>
PaletteLabel == <<"p", "a", "l", "e", "t", "t", "e", "_", "d", "a", "t", "a", ":">>
DcW == <<" ", " ", " ", " ", "d", "c", ".", "w", " ">>
TileComment == <<";", " ", "G", "e", "n", "e", "s", "i", "s", " ", "T", "i", "l", "e", " ", "D", "a", "t", "a">>
TileLabel == <<"t", "i", "l", "e", "_", "d", "a", "t", "a", ":">>
DcB == <<" ", " ", " ", " ", "d", "c", ".", "b", " ", "$">>

\* f"; {total_tiles} tiles ({tiles_x}x{tiles_y})"
TileCountComment(data) ==
    <<";", " ">> \o FormatDec(data.total_tiles) \o <<" ", "t", "i", "l", "e", "s", " ", "(">>
    \o FormatDec(data.tiles_x) \o <<"x">> \o FormatDec(data.tiles_y) \o <<")">>

\* format_output
format_output(data) ==
    LET palette_hex == [k \in 1..Len(data.palette) |->
                           <<"$">> \o FormatHex(data.palette[k], 4)]
        paletteLines == [n \in 1..2 |->
                            DcW \o Join(Slice(palette_hex, 8 * (n - 1), 8 * n), <<",", " ">>)]
        td == data.tile_data
        tileLines == [n \in 1..((Len(td) + 15) \div 16) |->
                         DcB \o Join(Slice(td, 16 * (n - 1), 16 * n), <<",", " ", "$">>)]
        output == <<PaletteComment, PaletteLabel>> \o paletteLines \o << <<>> >>
                  \o <<TileComment, TileCountComment(data), TileLabel>> \o tileLines
    IN  Join(output, <<"\n">>)

\* bitmap_to_genesis_hex: the dictionary handed to format_output
ResultData ==
    [palette |-> genesis_palette,
     tile_data |-> tile_hex_data,
     tiles_x |-> tiles.tiles_x,
     tiles_y |-> tiles.tiles_y,
     total_tiles |-> Len(tiles.tiles)]

(***************************************************************************)
(* GenesisHEX2BMP.py: parse_genesis_assembly                               *)
(***************************************************************************)
\* \s of Python's re for the characters a text file holds
IsSpace(c) == c \in {" ", "\t", "\n", "\r", "\f"}

MatchesAt(content, i, word) ==
    /\ i + Len(word) - 1 <= Len(content)
    /\ \A k \in 1..Len(word) : content[i + k - 1] = word[k]

\* (?=\n\S|\Z) at position r (the character at r is the next one to be read)
SectionEndsAt(content, r) ==
    \/ r = Len(content) + 1
    \/ /\ r < Len(content)
       /\ content[r] = "\n"
       /\ ~IsSpace(content[r + 1])

\* re.findall(label + r'\s*(.*?)(?=\n\S|\Z)', content, re.DOTALL): the list of
\* captured groups, of which the code reads the first. The first match starts at
\* the first occurrence of the label, \s* takes all the white space after it and
\* the lazy group stops at the first position where the lookahead holds.
FirstSection(content, label) ==
    LET n == Len(content)
    IN  IF \A i \in 1..n : ~MatchesAt(content, i, label) THEN <<>>
        ELSE LET p == CHOOSE i \in 1..n :
                          /\ MatchesAt(content, i, label)
                          /\ \A j \in 1..(i - 1) : ~MatchesAt(content, j, label)
                 a == p + Len(label)
                 q == CHOOSE i \in a..(n + 1) :
                          /\ i = n + 1 \/ ~IsSpace(content[i])
                          /\ \A k \in a..(i - 1) : IsSpace(content[k])
                 r == CHOOSE i \in q..(n + 1) :
                          /\ SectionEndsAt(content, i)
                          /\ \A k \in q..(i - 1) : ~SectionEndsAt(content, k)
             IN  << SubSeq(content, q, r - 1) >>

\* Number of hex digits that follow position i, counted up to `most`
RECURSIVE HexRun(_, _, _)
HexRun(text, i, most) ==
    IF most = 0 \/ i + 1 > Len(text) \/ ~IsHexDigit(text[i + 1]) THEN 0
    ELSE 1 + HexRun(text, i + 1, most - 1)

\* The match of \$([0-9A-Fa-f]{lo,hi}) that starts at position i, through
\* int(match, 16): the quantifier is greedy
LiteralAt(text, i, lo, hi) ==
    IF text[i] = "$" /\ HexRun(text, i, hi) >= lo
    THEN <<HexToInt(SubSeq(text, i + 1, i + HexRun(text, i, hi)))>>
    ELSE <<>>

\* re.findall(r'\$([0-9A-Fa-f]{lo,hi})', text) for the positions a..b of text,
\* left to right. A match is a "$" and hex digits, and "$" is no hex digit, so
\* no match starts inside another one: the scan finds the match of every
\* position that has one.
RECURSIVE FindHexLiterals(_, _, _, _, _)
FindHexLiterals(text, a, b, lo, hi) ==
    IF a > b THEN <<>>
    ELSE IF a = b THEN LiteralAt(text, a, lo, hi)
    ELSE LET m == (a + b) \div 2
         IN  FindHexLiterals(text, a, m, lo, hi) \o FindHexLiterals(text, m + 1, b, lo, hi)

\* parse_genesis_assembly on the text of the file
parse_genesis_assembly(content) ==
    LET palette_matches == FirstSection(content, PaletteLabel)
        tile_matches == FirstSection(content, TileLabel)
    IN  [palette |-> IF palette_matches # <<>>
                     THEN FindHexLiterals(palette_matches[1], 1, Len(palette_matches[1]), 3, 4)
                     ELSE <<>>,
         tile_data |-> IF tile_matches # <<>>
                       THEN FindHexLiterals(tile_matches[1], 1, Len(tile_matches[1]), 2, 2)
                       ELSE <<>>]

(***************************************************************************)
(* GenesisHEX2BMP.py: create_bmp                                           *)
(***************************************************************************)
\* struct.pack('<H', v) and struct.pack('<L', v): n bytes, least significant first
LittleEndian(v, n) == [k \in 1..n |-> (v \div Pow2(8 * (k - 1))) % 256]

\* The value a reader of the file finds in the n bytes at 0-based offset `at`
RECURSIVE ReadLittleEndian(_, _, _)
ReadLittleEndian(bytes, at, n) ==
    IF n = 0 THEN 0
    ELSE bytes[at + 1] + 256 * ReadLittleEndian(bytes, at + 1, n - 1)

\* Mutant of FileSizeField: counts one byte per pixel
FileSizeFieldBytePerPixel(width_px, height_px) == 54 + 64 + (width_px * height_px)

\* The file size written in the header
FileSizeField(width_px, height_px) == 54 + 64 + ((width_px * height_px) \div 2)

\* struct.pack('<HLHHL', ...) + struct.pack('<LLLHHLLLLLL', ...)
BmpHeaders(width_px, height_px) ==
    LittleEndian(19778, 2) \o LittleEndian(FileSizeField(width_px, height_px), 4)
    \o LittleEndian(0, 2) \o LittleEndian(0, 2) \o LittleEndian(54 + 64, 4)
    \o LittleEndian(40, 4) \o LittleEndian(width_px, 4) \o LittleEndian(height_px, 4)
    \o LittleEndian(1, 2) \o LittleEndian(4, 2) \o LittleEndian(0, 4)
    \o LittleEndian(0, 4) \o LittleEndian(2835, 4) \o LittleEndian(2835, 4)
    \o LittleEndian(16, 4) \o LittleEndian(16, 4)

\* The colour table: one '<BBBx' entry per palette colour, then
\* b'\x00' * (64 - len(color_table)), which is empty when the count is negative
ColorTable(pal) ==
    LET entries == Flatten([k \in 1..Len(pal) |->
                       LET rgb == genesis_to_rgb(pal[k])
                       IN  <<Min(rgb[3], 255), Min(rgb[2], 255), Min(rgb[1], 255), 0>>])
        missing == 64 - Len(entries)
    IN  entries \o [k \in 1..(IF missing > 0 THEN missing ELSE 0) |-> 0]

\* Mutant of UnpackNibbles: the low nibble of each byte first
UnpackNibblesLowFirst(bytes) ==
    [k \in 1..(2 * Len(bytes)) |->
        IF k % 2 = 1 THEN BitAnd(bytes[(k + 1) \div 2], 15)
        ELSE BitAnd(Shr(bytes[k \div 2], 4), 15)]

\* Unpack 4-bit pixels: the high nibble of each byte, then the low one
UnpackNibbles(bytes) ==
    [k \in 1..(2 * Len(bytes)) |->
        IF k % 2 = 1 THEN BitAnd(Shr(bytes[(k + 1) \div 2], 4), 15)
        ELSE BitAnd(bytes[k \div 2], 15)]

\* Pack 4-bit pixels into bytes: (row[i] << 4) | row[i+1] for i = 0, 2, ...
PackNibbles(row) ==
    [j \in 1..(Len(row) \div 2) |-> BitOr(Shl(row[2 * j - 1], 4), row[2 * j])]

\* Row padding: b'\x00' * (-len(packed_row) % 4)
RowPadding(packed_row) == [k \in 1..((4 - (Len(packed_row) % 4)) % 4) |-> 0]

\* One pixel row of the file: row y of tile row ty, read from the stream `data`
PixelRow(data, width_tiles, ty, y) ==
    LET row == Flatten([n \in 1..width_tiles |->
                   LET tx == n - 1
                       tile_index == ty * width_tiles + tx
                       tile_start == tile_index * 32
                       tile_row == Slice(data, tile_start + y * 4, tile_start + y * 4 + 4)
                   IN  UnpackNibbles(tile_row)])
        packed_row == PackNibbles(row)
    IN  packed_row \o RowPadding(packed_row)

\* The pixel data: tile rows from the last to the first, rows 7 down to 0 in each
PixelData(data, width_tiles, height_tiles) ==
    Flatten([n \in 1..(height_tiles * TileSize) |->
                LET line == height_tiles * TileSize - n
                IN  PixelRow(data, width_tiles, line \div TileSize, line % TileSize)])

\* The stream the row loop reads: the module-level name tile_data, whatever the
\* argument `tiles` is
StreamRead(tiles_arg, global_tile_data) == global_tile_data

\* create_bmp(palette, tiles, width_tiles, height_tiles, output_path): the file
\* written, or the exception raised before the file is opened
create_bmp(pal, tiles_arg, width_tiles, height_tiles, global_tile_data) ==
    LET width_px == width_tiles * TileSize
        height_px == height_tiles * TileSize
        data == StreamRead(tiles_arg, global_tile_data)
    IN  IF ~data.defined /\ width_tiles > 0 /\ height_tiles > 0
        THEN Raised("NameError")
        ELSE Returned([written |-> TRUE,
                       headers |-> BmpHeaders(width_px, height_px),
                       color_table |-> ColorTable(pal),
                       pixel_data |-> PixelData(data.value, width_tiles, height_tiles)])

\* The bytes of the file, in the order they are written
FileBytes(file) == file.headers \o file.color_table \o file.pixel_data

(***************************************************************************)
(* Inputs: quantized images.                                               *)
(***************************************************************************)
\* Pixel index patterns <<a, b, m>>: pixel (x, y) holds (a*x + b*y) % m
ImagePatterns == {<<0, 0, 1>>, <<1, 3, 16>>, <<5, 1, 7>>}

\* The RGB colour the quantizer gave palette slot i
QuantColor(i) == <<(i * 17) % 256, (i * 73) % 256, 255 - i * 17>>

\* The image image.quantize returns: its size, its pixel indices, the number of
\* colours of its palette (the indices in use are 0 .. colors-1) and getpalette()
QuantizedImage(w, h, pat, padded) ==
    LET px == [y \in 0..(h - 1) |-> [x \in 0..(w - 1) |-> (pat[1] * x + pat[2] * y) % pat[3]]]
        used == {px[y][x] : y \in 0..(h - 1), x \in 0..(w - 1)}
        n == 1 + CHOOSE i \in used : \A j \in used : j <= i
    IN  [size |-> <<w, h>>,
         px |-> px,
         colors |-> n,
         palette |-> GetPalette([i \in 1..n |-> QuantColor(i - 1)], padded)]

NoImage == [size |-> <<0, 0>>, px |-> <<>>, colors |-> 0, palette |-> <<>>]
NoTiles == [tiles |-> <<>>, tiles_x |-> 0, tiles_y |-> 0]
IdleCodec == [pc |-> "idle", color |-> 0, rgb |-> <<0, 0, 0>>, genesis_color |-> 0]
IdleNib == [pc |-> "idle", tile |-> <<>>, hex |-> <<>>, bytes |-> <<>>, unpacked |-> <<>>]

ForwardIdle ==
    /\ fpc = "idle"
    /\ image = NoImage
    /\ genesis_palette = <<>>
    /\ tiles = NoTiles
    /\ tile_hex_data = <<>>

ReverseStart ==
    /\ rpc = "start"
    /\ palette = Undefined
    /\ tile_data = Undefined
    /\ call = NoCall
    /\ bmp = NoBmp

(***************************************************************************)
(* GenesisBMP2HEX.py: the steps of main() and bitmap_to_genesis_hex        *)
(***************************************************************************)
CreateGenesisPalette ==
    /\ fpc = "start"
    /\ \E r \in {create_genesis_palette(image)} :
           /\ genesis_palette' = r.value
           /\ err' = r.raised
           /\ fpc' = IF r.raised = "none" THEN "palette" ELSE "error"
    /\ UNCHANGED <<codec, nib, image, tiles, tile_hex_data, asm, reverseVars>>

ImageToTiles ==
    /\ fpc = "palette"
    /\ tiles' = image_to_tiles(image)
    /\ fpc' = "tiles"
    /\ UNCHANGED <<codec, nib, image, genesis_palette, tile_hex_data, asm, reverseVars, err>>

TilesToGenesisHex ==
    /\ fpc = "tiles"
    /\ tile_hex_data' = tiles_to_genesis_hex(tiles.tiles)
    /\ fpc' = "hex"
    /\ UNCHANGED <<codec, nib, image, genesis_palette, tiles, asm, reverseVars, err>>

\* format_output(result), written to the output file
SaveOutput ==
    /\ fpc = "hex"
    /\ asm' = [exists |-> TRUE,
               text |-> format_output(ResultData),
               palette_words |-> genesis_palette,
               tile_bytes |-> Flatten([k \in 1..Len(tiles.tiles) |-> PackTile(tiles.tiles[k])])]
    /\ fpc' = "saved"
    /\ UNCHANGED <<codec, nib, image, genesis_palette, tiles, tile_hex_data, reverseVars, err>>

(***************************************************************************)
(* GenesisHEX2BMP.py: the steps of the __main__ block                      *)
(***************************************************************************)
\* palette, tile_data = parse_genesis_assembly(input_file)
ParseGenesisAssembly ==
    /\ rpc = "start"
    /\ asm.exists
    /\ \E r \in {parse_genesis_assembly(asm.text)} :
           /\ palette' = Defined(r.palette)
           /\ tile_data' = Defined(r.tile_data)
    /\ rpc' = "parsed"
    /\ UNCHANGED <<codec, nib, forwardVars, asm, call, bmp, err>>

\* A call of create_bmp with the module's tile_data as it stands
DoCreateBmp(pal, tiles_arg, w, h) ==
    \E r \in {create_bmp(pal, tiles_arg, w, h, tile_data)} :
        /\ call' = [made |-> TRUE, palette |-> pal, tiles |-> tiles_arg,
                    width_tiles |-> w, height_tiles |-> h]
        /\ bmp' = IF r.raised = "none" THEN r.value ELSE bmp
        /\ err' = r.raised
        /\ rpc' = IF r.raised = "none" THEN "done" ELSE "error"

\* create_bmp(palette, tile_data, width_tiles, height_tiles, output_file), with
\* the width and height in tiles the user typed
CreateBmp ==
    /\ rpc = "parsed"
    /\ \E w \in 1..MaxTilesAcross, h \in 1..MaxTilesDown :
           DoCreateBmp(palette.value, tile_data.value, w, h)
    /\ UNCHANGED <<codec, nib, forwardVars, asm, palette, tile_data>>

(***************************************************************************)
(* Both scripts, one after the other: an image is converted and saved, the *)
(* saved file is converted back.                                           *)
(***************************************************************************)
Init ==
    /\ codec = IdleCodec
    /\ nib = IdleNib
    /\ fpc = "start"
    /\ \E w \in 1..MaxWidth, h \in 1..MaxHeight, pat \in ImagePatterns, padded \in BOOLEAN :
           image = QuantizedImage(w, h, pat, padded)
    /\ genesis_palette = <<>>
    /\ tiles = NoTiles
    /\ tile_hex_data = <<>>
    /\ asm = NoAsm
    /\ ReverseStart
    /\ err = "none"

Next ==
    \/ CreateGenesisPalette
    \/ ImageToTiles
    \/ TilesToGenesisHex
    \/ SaveOutput
    \/ ParseGenesisAssembly
    \/ CreateBmp

Spec == Init /\ [][Next]_vars

(***************************************************************************)
(* The colour codec on its own: a Color9 value is decoded, then encoded.   *)
(***************************************************************************)
GenesisToRgb ==
    /\ codec.pc = "start"
    /\ codec' = [codec EXCEPT !.pc = "decoded", !.rgb = genesis_to_rgb(codec.color)]
    /\ UNCHANGED <<nib, forwardVars, asm, reverseVars, err>>

RgbToGenesisColor ==
    /\ codec.pc = "decoded"
    /\ codec' = [codec EXCEPT !.pc = "encoded",
                              !.genesis_color = rgb_to_genesis_color(codec.rgb[1],
                                                                     codec.rgb[2],
                                                                     codec.rgb[3])]
    /\ UNCHANGED <<nib, forwardVars, asm, reverseVars, err>>

InitColor ==
    /\ \E v \in 0..511 : codec = [IdleCodec EXCEPT !.pc = "start", !.color = v]
    /\ nib = IdleNib
    /\ ForwardIdle
    /\ asm = NoAsm
    /\ ReverseStart
    /\ err = "none"

NextColor == GenesisToRgb \/ RgbToGenesisColor

SpecColor == InitColor /\ [][NextColor]_vars

(***************************************************************************)
(* The tile codec on its own: a tile is packed to hex text, the text is    *)
(* read back as bytes and the bytes are unpacked.                          *)
(***************************************************************************)
\* Tiles whose pixel i holds (a*i + b) % 16: every pair of neighbouring
\* indices occurs in one of them
TileOf(a, b) == [i \in 1..(TileSize * TileSize) |-> (a * (i - 1) + b) % NumColors]

PackToHex ==
    /\ nib.pc = "start"
    /\ nib' = [nib EXCEPT !.pc = "packed", !.hex = tiles_to_genesis_hex(<<nib.tile>>)]
    /\ UNCHANGED <<codec, forwardVars, asm, reverseVars, err>>

\* int(match, 16) of every literal, then the unpacking of create_bmp
UnpackBytes ==
    /\ nib.pc = "packed"
    /\ LET bytes == [k \in 1..Len(nib.hex) |-> HexToInt(nib.hex[k])]
       IN  nib' = [nib EXCEPT !.pc = "unpacked", !.bytes = bytes,
                              !.unpacked = UnpackNibbles(bytes)]
    /\ UNCHANGED <<codec, forwardVars, asm, reverseVars, err>>

InitTile ==
    /\ codec = IdleCodec
    /\ \E a \in 0..(NumColors - 1), b \in 0..(NumColors - 1) :
           nib = [IdleNib EXCEPT !.pc = "start", !.tile = TileOf(a, b)]
    /\ ForwardIdle
    /\ asm = NoAsm
    /\ ReverseStart
    /\ err = "none"

NextTile == PackToHex \/ UnpackBytes

SpecTile == InitTile /\ [][NextTile]_vars

(***************************************************************************)
(* Inputs: assembly files written or edited by hand, in the shapes of      *)
(* format_output: a label line, then indented data lines of 8 words or 16  *)
(* bytes; the shorter ones with one more line (blank or comment) put among *)
(* the lines of a section.                                                 *)
(***************************************************************************)
WordValue(n, k) == (((n - 1) * 8 + k) * 29) % 512
ByteValue(n, k) == (((n - 1) * 16 + k) * 37) % 256

WordsOfLine(n) == [k \in 1..8 |-> WordValue(n, k)]
BytesOfLine(n) == [k \in 1..16 |-> ByteValue(n, k)]

\* "    dc.w $XXXX, ..": four digits on odd lines, three on even ones
WordsLine(n) ==
    DcW \o Join([k \in 1..8 |->
                    <<"$">> \o FormatHex(WordValue(n, k), IF n % 2 = 1 THEN 4 ELSE 3)],
                <<",", " ">>)

\* "    dc.b $XX, .."
BytesLine(n) ==
    DcB \o Join([k \in 1..16 |-> FormatHex(ByteValue(n, k), 2)], <<",", " ", "$">>)

NoteKinds == {"blank", "indented", "column0", "quoting"}

NoteLine(kind) ==
    CASE kind = "blank" -> <<>>
      [] kind = "indented" -> <<" ", " ", " ", " ", ";", " ", "n", "o", "t", "e">>
      [] kind = "column0" -> <<";", " ", "n", "o", "t", "e">>
      [] kind = "quoting" -> <<" ", " ", " ", " ", ";", " ", "w", "a", "s", " ",
                               "$", "0", "1", "F", "F">>

WithNote(lines, kind, after) ==
    IF kind = "none" THEN lines
    ELSE SubSeq(lines, 1, after) \o <<NoteLine(kind)>> \o SubSeq(lines, after + 1, Len(lines))

\* pal, tile: the number of data lines of each section, -1 for no section at all
HandWritten(pal, tile, kind, section, after) ==
    LET palLines == [n \in 1..pal |-> WordsLine(n)]
        tileLines == [n \in 1..tile |-> BytesLine(n)]
        palPart == IF pal < 0 THEN <<>>
                   ELSE <<PaletteLabel>> \o
                        (IF section = "palette" THEN WithNote(palLines, kind, after)
                         ELSE palLines)
        tilePart == IF tile < 0 THEN <<>>
                    ELSE <<TileLabel>> \o
                         (IF section = "tile" THEN WithNote(tileLines, kind, after)
                          ELSE tileLines)
    IN  [exists |-> TRUE,
         text |-> Join(palPart \o tilePart, <<"\n">>) \o <<"\n">>,
         palette_words |-> Flatten([n \in 1..pal |-> WordsOfLine(n)]),
         tile_bytes |-> Flatten([n \in 1..tile |-> BytesOfLine(n)])]

PlainFiles ==
    {HandWritten(pal, tile, "none", "tile", 0) :
        pal \in (-1)..MaxPaletteLines, tile \in (-1)..MaxTileLines}

NotedFiles ==
    UNION {UNION {{HandWritten(pal, tile, kind, "palette", after) :
                      kind \in NoteKinds, after \in 0..pal}
                  \cup {HandWritten(pal, tile, kind, "tile", after) :
                      kind \in NoteKinds, after \in 0..tile} :
                  pal \in (-1)..MaxNotedLines} :
           tile \in (-1)..MaxNotedLines}

(***************************************************************************)
(* GenesisHEX2BMP.py run on such a file.                                   *)
(***************************************************************************)
InitReverse ==
    /\ codec = IdleCodec
    /\ nib = IdleNib
    /\ ForwardIdle
    /\ asm \in PlainFiles \cup NotedFiles
    /\ ReverseStart
    /\ err = "none"

NextReverse == ParseGenesisAssembly \/ CreateBmp

SpecReverse == InitReverse /\ [][NextReverse]_vars

(***************************************************************************)
(* create_bmp called by name in the interpreter that holds the module:     *)
(* before the __main__ block ran (the module was imported) or after it.    *)
(***************************************************************************)
CallerPalettes == {<<>>, <<7, 56, 448>>}
CallerStreams == {[k \in 1..32 |-> ByteValue(1, k)], [k \in 1..32 |-> ByteValue(2, k)]}

CallCreateBmp ==
    /\ rpc \in {"start", "done", "error"}
    /\ \E pal \in CallerPalettes, stream \in CallerStreams,
          w \in 1..MaxTilesAcross, h \in 1..MaxTilesDown :
           DoCreateBmp(pal, stream, w, h)
    /\ UNCHANGED <<codec, nib, forwardVars, asm, palette, tile_data>>

InitLibrary ==
    /\ codec = IdleCodec
    /\ nib = IdleNib
    /\ ForwardIdle
    /\ asm \in PlainFiles
    /\ ReverseStart
    /\ err = "none"

NextLibrary == ParseGenesisAssembly \/ CreateBmp \/ CallCreateBmp

SpecLibrary == InitLibrary /\ [][NextLibrary]_vars

(***************************************************************************)
(* Properties.                                                             *)
(***************************************************************************)
\* What a reader of a 4-bit bitmap finds at column x of image row y: rows are
\* stored bottom-up from the recorded offset, each padded to 4 bytes, two
\* pixels to a byte with the left one in the high nibble
BmpPixel(bytes, x, y) ==
    LET offset == ReadLittleEndian(bytes, 10, 4)
        width == ReadLittleEndian(bytes, 18, 4)
        height == ReadLittleEndian(bytes, 22, 4)
        row_bytes == ((width * 4 + 31) \div 32) * 4
        byte == bytes[offset + (height - 1 - y) * row_bytes + (x \div 2) + 1]
    IN  IF x % 2 = 0 THEN byte \div 16 ELSE byte % 16

\* The index at (x, y) of the image padded with index 0
PaddedIndex(img, x, y) ==
    IF x < img.size[1] /\ y < img.size[2] THEN img.px[y][x] ELSE 0

\* The smallest k with 8 * k >= n
CeilDiv8(n) == CHOOSE k \in 0..n : 8 * k >= n /\ 8 * (k - 1) < n

RoundTripDone ==
    /\ fpc = "saved"
    /\ rpc = "done"
    /\ call.width_tiles = tiles.tiles_x
    /\ call.height_tiles = tiles.tiles_y

\* C1: an image converted to tiles, hex text and assembly, parsed back and
\* written by create_bmp with width_tiles = tiles_x and height_tiles = tiles_y
\* gives a bitmap whose pixel at column x of image row y is the index at (x, y)
\* of the image padded with index 0 to multiples of 8.
C1_RoundTrip ==
    RoundTripDone =>
        \A bytes \in {FileBytes(bmp)} :
            \A y \in 0..(TileSize * tiles.tiles_y - 1), x \in 0..(TileSize * tiles.tiles_x - 1) :
                BmpPixel(bytes, x, y) = PaddedIndex(image, x, y)

C1_Witness ==
    /\ RoundTripDone
    /\ image.size = <<10, 10>>
    /\ image.colors = 16
    /\ image.px[9][9] = 4
    /\ BmpPixel(FileBytes(bmp), 9, 9) = 4
    /\ BmpPixel(FileBytes(bmp), 10, 9) = 0

\* C2: for every Color9 value v in 0..511, encoding the decoded colour gives v
\* back: rgb_to_genesis_color(genesis_to_rgb(v)) = v.
C2_EncodeDecode ==
    codec.pc = "encoded" => codec.genesis_color = codec.color

\* C3: unpacking the 32 bytes tiles_to_genesis_hex produces for a tile
\* (byte i/2 = (t[i] << 4) | t[i+1]) high nibble first returns the tile.
C3_PackUnpack ==
    nib.pc = "unpacked" =>
        /\ Len(nib.bytes) = 32
        /\ \A j \in 1..32 : nib.bytes[j] = 16 * nib.tile[2 * j - 1] + nib.tile[2 * j]
        /\ nib.unpacked = nib.tile

C3_Witness ==
    /\ nib.pc = "unpacked"
    /\ nib.tile[1] = 15
    /\ nib.tile[2] = 0
    /\ nib.bytes[1] = 240
    /\ nib.unpacked[1] = 15

\* C4: when the tile stream holds fewer than width_tiles * height_tiles * 32
\* bytes, create_bmp fails with an error instead of writing a bitmap file.
C4_InsufficientData ==
    (call.made /\ Len(call.tiles) < call.width_tiles * call.height_tiles * 32)
        => (err # "none" /\ ~bmp.written)

\* C5: parse_genesis_assembly returns, in order, every hex literal of the data
\* lines of a labelled section up to the next label or the end of the text;
\* blank and comment lines among the data lines neither cut the section short
\* nor add values.
C5_SectionLiterals ==
    rpc # "start" =>
        /\ palette.value = asm.palette_words
        /\ tile_data.value = asm.tile_bytes

\* C6: create_genesis_palette returns, without failing, a palette of exactly
\* 16 values whatever the number of colours (1 to 16) of the quantizer's
\* palette; the slots beyond the quantizer's colours are 0.
C6_PaletteOf16 ==
    fpc # "start" =>
        /\ err = "none"
        /\ Len(genesis_palette) = 16
        /\ \A k \in (image.colors + 1)..16 : genesis_palette[k] = 0

\* C7: with a tile stream of exactly width_tiles * height_tiles * 32 bytes and
\* a palette of at most 16 entries, the file size in the header is the number
\* of bytes written: 54 + 64 + height_px rows padded to 4 bytes each, which is
\* 118 + 32 * width_tiles * height_tiles, and 150 for one tile.
C7_FileSize ==
    (/\ rpc = "done"
     /\ Len(call.tiles) = call.width_tiles * call.height_tiles * 32
     /\ Len(call.palette) <= 16)
    => \A bytes \in {FileBytes(bmp)} :
           LET width_px == TileSize * call.width_tiles
               height_px == TileSize * call.height_tiles
               row_bytes == ((width_px * 4 + 31) \div 32) * 4
           IN  /\ ReadLittleEndian(bytes, 2, 4) = Len(bytes)
               /\ Len(bytes) = 54 + 64 + height_px * row_bytes
               /\ Len(bytes) = 118 + 32 * call.width_tiles * call.height_tiles
               /\ (call.width_tiles = 1 /\ call.height_tiles = 1) => Len(bytes) = 150

C7_Witness ==
    /\ rpc = "done"
    /\ call.width_tiles = 1
    /\ call.height_tiles = 1
    /\ Len(call.tiles) = 32
    /\ Len(call.palette) = 8
    /\ ReadLittleEndian(FileBytes(bmp), 2, 4) = 150
    /\ Len(FileBytes(bmp)) = 150

\* C8: for every palette list the parser can return, of any length, the colour
\* table written is exactly 64 bytes, so the pixel data starts at the recorded
\* offset 118.
C8_ColorTable64 ==
    bmp.written =>
        /\ Len(bmp.color_table) = 64
        /\ Len(bmp.headers) + Len(bmp.color_table) = ReadLittleEndian(FileBytes(bmp), 10, 4)

\* C9: image_to_tiles returns tiles_x = ceil(W/8), tiles_y = ceil(H/8) and
\* tiles_x * tiles_y tiles of 64 indices each, and tiles_to_genesis_hex emits
\* 32 * tiles_x * tiles_y byte literals (4 tiles and 128 bytes for 10x10).
C9_TileCounts ==
    /\ fpc \in {"tiles", "hex", "saved"} =>
           /\ tiles.tiles_x = CeilDiv8(image.size[1])
           /\ tiles.tiles_y = CeilDiv8(image.size[2])
           /\ tiles.tiles_x * 8 >= image.size[1]
           /\ tiles.tiles_y * 8 >= image.size[2]
           /\ image.size[1] % 8 = 0 => tiles.tiles_x * 8 = image.size[1]
           /\ image.size[2] % 8 = 0 => tiles.tiles_y * 8 = image.size[2]
           /\ Len(tiles.tiles) = tiles.tiles_x * tiles.tiles_y
           /\ \A k \in 1..Len(tiles.tiles) : Len(tiles.tiles[k]) = 64
           /\ image.size = <<10, 10>> => Len(tiles.tiles) = 4
    /\ fpc \in {"hex", "saved"} =>
           /\ Len(tile_hex_data) = 32 * tiles.tiles_x * tiles.tiles_y
           /\ \A k \in 1..Len(tile_hex_data) : Len(tile_hex_data[k]) = 2
           /\ image.size = <<10, 10>> => Len(tile_hex_data) = 128

C9_Witness ==
    /\ fpc = "hex"
    /\ image.size = <<10, 10>>
    /\ tiles.tiles_x = 2
    /\ tiles.tiles_y = 2
    /\ Len(tiles.tiles) = 4
    /\ Len(tile_hex_data) = 128

\* C10: the bytes create_bmp writes are a function of its arguments only: the
\* pixel rows are built from the stream passed as `tiles`, whatever the
\* module-level tile_data holds and whether it is defined at all.
C10_ArgumentsOnly ==
    call.made =>
        /\ err = "none"
        /\ bmp.written
        /\ bmp.pixel_data = PixelData(call.tiles, call.width_tiles, call.height_tiles)

====
